---- MODULE Spec2Model ----
(***************************************************************************)
(* Model of src/sched_deadline/cyclicdeadline.c (rt-tests).                *)
(*                                                                         *)
(* Spec     the coordinator (main) and nr_threads workers (run_deadline)   *)
(*          running the barrier-driven startup protocol, the steady-state  *)
(*          loop, the reporting loop and the join.                         *)
(* FairSpec Spec with weak fairness on every thread (OS scheduling).       *)
(* SpecCpu  the CPU list code: calc_nr_cpus / add_cpus / make_new_list /   *)
(*          count_cpus / make_other_cpu_list applied to CPU expressions.   *)
(* SpecComp make_other_cpu_list applied twice to a canonical list.         *)
(* SpecText calc_nr_cpus on expressions with malformed tokens.             *)
(* SpecSched main's schedule setup: percent, runtime_us and deadline_us.   *)
(* SpecRun  do_runtime called again and again on one worker's statistics.  *)
(***************************************************************************)
EXTENDS Integers, Sequences, FiniteSets, TLC

VARIABLES
    \* ---- threads (Spec) ----
    shutdown,     \* static int shutdown
    barrier,      \* threads currently blocked in pthread_barrier_wait(&barrier)
    mpc,          \* position of main
    wpc,          \* position of each run_deadline thread
    i,            \* main's loop index i
    tid,          \* sched_data[w].stat.tid
    cycles,       \* sched_data[w].stat.cycles
    ret_getattr,  \* outcome of the first sched_getattr of each worker
    ret_setattr,  \* outcome of sched_setattr of each worker
    res,          \* thread result (return value / pthread_exit argument)
    all_cpus,     \* static int all_cpus
    pids,         \* the pids[] array handed to make_cpuset(CPUSET_LOCAL, ...)
    status,       \* exit status of the process, -1 while it runs
    \* ---- CPU lists (SpecCpu) ----
    tokens,       \* the intervals the expression was written from
    setcpu,       \* the string being parsed (const char *setcpu)
    cpu_count,    \* static int cpu_count
    p,            \* const char *p, as an index into setcpu
    cpu_list,     \* struct cpu_list *cpu_list, head first
    setcpu_buf,   \* text rendered by make_new_list
    allcpu_buf,   \* text produced by make_other_cpu_list
    nr_cpus,      \* return value of calc_nr_cpus
    cpc,          \* position in the CPU list code
    passes,       \* passes of the loop of calc_nr_cpus made so far
    first,        \* result of the first pass, kept when the text is parsed again
    \* ---- schedule setup in main (SpecSched) ----
    opt_interval, \* the interval the run was started with (-i, default 1000)
    interval,     \* unsigned int interval
    step,         \* unsigned int step
    percent,      \* int percent
    opt_threads,  \* static int nr_threads, as given with -t
    sched_data,   \* sched_data[k].runtime_us and .deadline_us
    sched_i,      \* the index i of the setup loop
    spc,          \* position in the schedule setup
    \* ---- do_runtime on one worker (SpecRun) ----
    sd,           \* struct sched_data *sd: deadline_us and stat
    period,       \* u64 period of run_deadline
    clock,        \* what get_time_us() returns
    lats,         \* history: the latencies recorded so far
    last          \* history: the arguments of the last call of do_runtime

tvars == <<shutdown, barrier, mpc, wpc, i, tid, cycles, ret_getattr,
           ret_setattr, res, all_cpus, pids, status>>
cvars == <<tokens, setcpu, cpu_count, p, cpu_list, setcpu_buf, allcpu_buf,
           nr_cpus, cpc, passes, first>>
svars == <<opt_interval, interval, step, percent, opt_threads, sched_data,
           sched_i, spc>>
rvars == <<sd, period, clock, lats, last>>
vars == <<tvars, cvars, svars, rvars>>

(***************************************************************************)
(* Bounds                                                                  *)
(***************************************************************************)
nr_threads == 2      \* number of workers (-t)
MaxCycles == 2       \* cap on stat.cycles

Workers == 0 .. (nr_threads - 1)
Main == -1           \* main, next to the worker indices
Threads == Workers \cup {Main}

(***************************************************************************)
(* Threads                                                                 *)
(***************************************************************************)

\* gettid() of worker w; 0 is what calloc leaves in stat.tid
gettid(w) == 100 + w

\* pthread_barrier_init(&barrier, NULL, nr_threads + 1)
BarrierPartiesOneShort == nr_threads
BarrierParties == nr_threads + 1

\* the process runs until main returns or calls fatal()/exit()
Running == status = -1

\* fatal(): diagnostic, then exit(EXIT_FAILURE); the process and all its
\* threads end where they are
fatal == /\ status' = 1
         /\ mpc' = "aborted"

\* pthread_barrier_wait, arrival: the last of BarrierParties arrivals
\* releases everybody and resets the barrier for the next phase
Arrive(t) == barrier' = IF Cardinality(barrier \cup {t}) >= BarrierParties
                        THEN {} ELSE barrier \cup {t}

\* pthread_barrier_wait, return: t is no longer held by the barrier
Released(t) == t \notin barrier

\* nothing kept from a first pass yet
NoFirst == [done |-> FALSE, list |-> <<>>, text |-> <<>>, others |-> <<>>]

\* the CPU list variables, at rest while the threads run
TInitCpu == /\ tokens = <<>> /\ setcpu = <<>> /\ cpu_count = 0 /\ p = 1
            /\ cpu_list = <<>> /\ setcpu_buf = <<>> /\ allcpu_buf = <<>>
            /\ nr_cpus = 0 /\ cpc = "idle" /\ passes = 0
            /\ first = NoFirst

\* the schedule variables, at rest outside the schedule setup
TInitSched ==
    /\ opt_interval = 1000 /\ interval = 1000 /\ step = 500 /\ percent = 60
    /\ opt_threads = 0 /\ sched_data = <<>> /\ sched_i = 0 /\ spc = "idle"

\* calloc: the statistics of a worker before its first cycle
FreshStat == [cycles |-> 0, min |-> 0, max |-> 0, act |-> 0, avg |-> 0]

NoCall == [called |-> FALSE, now |-> 0, period |-> 0]

\* the variables of do_runtime, at rest outside SpecRun
TInitRun ==
    /\ sd = [deadline_us |-> 0, stat |-> FreshStat]
    /\ period = 0 /\ clock = 0 /\ lats = <<>> /\ last = NoCall

Init == /\ shutdown = 0
        /\ barrier = {}
        /\ mpc = "setup"
        /\ wpc = [w \in Workers |-> "notcreated"]
        /\ i = 0
        /\ tid = [w \in Workers |-> 0]
        /\ cycles = [w \in Workers |-> 0]
        /\ ret_getattr = [w \in Workers |-> "none"]
        /\ ret_setattr = [w \in Workers |-> "none"]
        /\ res = [w \in Workers |-> "none"]
        /\ all_cpus \in BOOLEAN
        /\ pids = <<>>
        /\ status = -1
        /\ TInitCpu
        /\ TInitSched
        /\ TInitRun

\* ---- run_deadline ----

\* stat->tid = tid; ret = sched_getattr(0, &attr, sizeof(attr), 0);
w_getattr(w) ==
    /\ Running /\ wpc[w] = "getattr"
    /\ tid' = [tid EXCEPT ![w] = gettid(w)]
    /\ \E ok \in BOOLEAN :
         /\ ret_getattr' = [ret_getattr EXCEPT ![w] = IF ok THEN "ok" ELSE "fail"]
         /\ wpc' = [wpc EXCEPT ![w] = IF ok THEN "bar1" ELSE "fail1"]
    /\ UNCHANGED <<shutdown, barrier, mpc, i, cycles, ret_setattr, res,
                   all_cpus, pids, status>>

\* if (ret < 0) { ...; shutdown = 1;      (both failure branches)
w_fail_keeps_flag(w) ==
    /\ Running /\ wpc[w] \in {"fail1", "fail2"}
    /\ wpc' = [wpc EXCEPT ![w] = IF wpc[w] = "fail1" THEN "bar1f" ELSE "bar3f"]
    /\ UNCHANGED <<shutdown, barrier, mpc, i, tid, cycles, ret_getattr,
                   ret_setattr, res, all_cpus, pids, status>>
w_fail(w) ==
    /\ Running /\ wpc[w] \in {"fail1", "fail2"}
    /\ shutdown' = 1
    /\ wpc' = [wpc EXCEPT ![w] = IF wpc[w] = "fail1" THEN "bar1f" ELSE "bar3f"]
    /\ UNCHANGED <<barrier, mpc, i, tid, cycles, ret_getattr, ret_setattr,
                   res, all_cpus, pids, status>>

\* the call of pthread_barrier_wait(&barrier) at each of its five places
WaitOf(pc) == CASE pc = "bar1"  -> "wait1"
                [] pc = "bar1f" -> "wait1f"
                [] pc = "bar2"  -> "wait2"
                [] pc = "bar3"  -> "wait3"
                [] pc = "bar3f" -> "wait3f"

w_arrive(w) ==
    /\ Running /\ wpc[w] \in {"bar1", "bar1f", "bar2", "bar3", "bar3f"}
    /\ Arrive(w)
    /\ wpc' = [wpc EXCEPT ![w] = WaitOf(wpc[w])]
    /\ UNCHANGED <<shutdown, mpc, i, tid, cycles, ret_getattr, ret_setattr,
                   res, all_cpus, pids, status>>

\* pthread_barrier_wait returns; the thread-local code up to the next
\* shared access runs with it:
\*   wait1  -> attr.sched_policy = SCHED_DEADLINE; ...; printf   (prepare)
\*   wait2  -> about to call sched_setattr
\*   wait3  -> sched_yield(); period = get_time_us();
\*   wait1f -> pthread_exit("Failed sched_getattr")
\*   wait3f -> pthread_exit("Failed sched_setattr")
w_return_early(w) ==
    /\ Running /\ wpc[w] \in {"wait1", "wait1f", "wait2", "wait3", "wait3f"}
    /\ wpc' = [wpc EXCEPT ![w] =
                 CASE wpc[w] = "wait1"  -> "bar2"
                   [] wpc[w] = "wait2"  -> "setattr"
                   [] wpc[w] = "wait3"  -> "loop"
                   [] wpc[w] = "wait1f" -> "exited"
                   [] wpc[w] = "wait3f" -> "exited"]
    /\ res' = [res EXCEPT ![w] =
                 CASE wpc[w] = "wait1f" -> "Failed sched_getattr"
                   [] wpc[w] = "wait3f" -> "Failed sched_setattr"
                   [] OTHER -> res[w]]
    /\ UNCHANGED <<shutdown, barrier, mpc, i, tid, cycles, ret_getattr,
                   ret_setattr, all_cpus, pids, status>>
w_return(w) ==
    /\ Running /\ wpc[w] \in {"wait1", "wait1f", "wait2", "wait3", "wait3f"}
    /\ Released(w)
    /\ wpc' = [wpc EXCEPT ![w] =
                 CASE wpc[w] = "wait1"  -> "bar2"
                   [] wpc[w] = "wait2"  -> "setattr"
                   [] wpc[w] = "wait3"  -> "loop"
                   [] wpc[w] = "wait1f" -> "exited"
                   [] wpc[w] = "wait3f" -> "exited"]
    /\ res' = [res EXCEPT ![w] =
                 CASE wpc[w] = "wait1f" -> "Failed sched_getattr"
                   [] wpc[w] = "wait3f" -> "Failed sched_setattr"
                   [] OTHER -> res[w]]
    /\ UNCHANGED <<shutdown, barrier, mpc, i, tid, cycles, ret_getattr,
                   ret_setattr, all_cpus, pids, status>>

\* ret = sched_setattr(0, &attr, 0);
w_setattr(w) ==
    /\ Running /\ wpc[w] = "setattr"
    /\ \E ok \in BOOLEAN :
         /\ ret_setattr' = [ret_setattr EXCEPT ![w] = IF ok THEN "ok" ELSE "fail"]
         /\ wpc' = [wpc EXCEPT ![w] = IF ok THEN "bar3" ELSE "fail2"]
    /\ UNCHANGED <<shutdown, barrier, mpc, i, tid, cycles, ret_getattr, res,
                   all_cpus, pids, status>>

\* while (!shutdown); a worker whose stat.cycles reached MaxCycles waits
\* for the flag
w_loop_ignores_flag(w) ==
    /\ Running /\ wpc[w] = "loop"
    /\ cycles[w] < MaxCycles
    /\ wpc' = [wpc EXCEPT ![w] = "do_runtime"]
    /\ UNCHANGED <<shutdown, barrier, mpc, i, tid, cycles, ret_getattr,
                   ret_setattr, res, all_cpus, pids, status>>
w_loop(w) ==
    /\ Running /\ wpc[w] = "loop"
    /\ (shutdown = 0 => cycles[w] < MaxCycles)
    /\ wpc' = [wpc EXCEPT ![w] = IF shutdown = 0 THEN "do_runtime" ELSE "getattr2"]
    /\ UNCHANGED <<shutdown, barrier, mpc, i, tid, cycles, ret_getattr,
                   ret_setattr, res, all_cpus, pids, status>>

\* period = do_runtime(tid, sd, period); sched_yield();
\* of the statistics only stat->cycles++ is kept here
w_do_runtime(w) ==
    /\ Running /\ wpc[w] = "do_runtime"
    /\ cycles' = [cycles EXCEPT ![w] = @ + 1]
    /\ wpc' = [wpc EXCEPT ![w] = "loop"]
    /\ UNCHANGED <<shutdown, barrier, mpc, i, tid, ret_getattr, ret_setattr,
                   res, all_cpus, pids, status>>

\* ret = sched_getattr(...) after the loop; return NULL or
\* pthread_exit("Failed second sched_getattr")
w_getattr2(w) ==
    /\ Running /\ wpc[w] = "getattr2"
    /\ \E ok \in BOOLEAN :
         res' = [res EXCEPT ![w] = IF ok THEN "NULL"
                                   ELSE "Failed second sched_getattr"]
    /\ wpc' = [wpc EXCEPT ![w] = "exited"]
    /\ UNCHANGED <<shutdown, barrier, mpc, i, tid, cycles, ret_getattr,
                   ret_setattr, all_cpus, pids, status>>

run_deadline(w) ==
    \/ w_getattr(w) \/ w_fail(w) \/ w_arrive(w) \/ w_return(w)
    \/ w_setattr(w) \/ w_loop(w) \/ w_do_runtime(w) \/ w_getattr2(w)

\* ---- main ----

\* one pass of "for (i = 0; i < nr_threads; i++)" that fills sched_data[i]:
\* runtime and deadline, then the trial do_runtime(gettid(), sd, start_period)
\* on the worker's own sched_data; fatal() when HRTICK is missing or the trial
\* took longer than the runtime
m_setup ==
    /\ Running /\ mpc = "setup"
    /\ \E ok \in BOOLEAN :
         IF ok
         THEN /\ cycles' = [cycles EXCEPT ![i] = @ + 1]
              /\ i' = IF i + 1 < nr_threads THEN i + 1 ELSE 0
              /\ mpc' = IF i + 1 < nr_threads THEN "setup" ELSE "create"
              /\ UNCHANGED status
         ELSE /\ fatal
              /\ UNCHANGED <<cycles, i>>
    /\ UNCHANGED <<shutdown, barrier, wpc, tid, ret_getattr, ret_setattr,
                   res, all_cpus, pids>>

\* pthread_create(&thread[i], NULL, run_deadline, sd); after the last one
\* atexit(teardown) and on to the first barrier
m_create ==
    /\ Running /\ mpc = "create"
    /\ wpc' = [wpc EXCEPT ![i] = "getattr"]
    /\ i' = IF i + 1 < nr_threads THEN i + 1 ELSE 0
    /\ mpc' = IF i + 1 < nr_threads THEN "create" ELSE "bar1"
    /\ UNCHANGED <<shutdown, barrier, tid, cycles, ret_getattr, ret_setattr,
                   res, all_cpus, pids, status>>

\* pthread_barrier_wait(&barrier) of main, the three calls
m_arrive ==
    /\ Running /\ mpc \in {"bar1", "bar2", "bar3"}
    /\ Arrive(Main)
    /\ mpc' = CASE mpc = "bar1" -> "wait1"
                [] mpc = "bar2" -> "wait2"
                [] mpc = "bar3" -> "wait3"
    /\ UNCHANGED <<shutdown, wpc, i, tid, cycles, ret_getattr, ret_setattr,
                   res, all_cpus, pids, status>>

\* if (shutdown) fatal("failed to setup child threads at step 1\n");
m_step1_unchecked ==
    /\ Running /\ mpc = "wait1" /\ Released(Main)
    /\ mpc' = "cpuset"
    /\ UNCHANGED <<shutdown, barrier, wpc, i, tid, cycles, ret_getattr,
                   ret_setattr, res, all_cpus, pids, status>>
m_step1 ==
    /\ Running /\ mpc = "wait1" /\ Released(Main)
    /\ IF shutdown # 0
       THEN fatal
       ELSE mpc' = "cpuset" /\ UNCHANGED status
    /\ UNCHANGED <<shutdown, barrier, wpc, i, tid, cycles, ret_getattr,
                   ret_setattr, res, all_cpus, pids>>

\* if (!all_cpus) { make_cpuset(CPUSET_ALL, ...); pids[i] = sched_data[i].stat.tid;
\* make_cpuset(CPUSET_LOCAL, setcpu, ..., pids); }  make_cpuset calls fatal()
\* when the cpuset file system refuses; then printf("main thread ...")
m_cpuset ==
    /\ Running /\ mpc = "cpuset"
    /\ IF all_cpus
       THEN mpc' = "bar2" /\ UNCHANGED <<pids, status>>
       ELSE \E ok \in BOOLEAN :
              IF ok
              THEN /\ pids' = [w \in Workers |-> tid[w]]
                   /\ mpc' = "bar2"
                   /\ UNCHANGED status
              ELSE fatal /\ UNCHANGED pids
    /\ UNCHANGED <<shutdown, barrier, wpc, i, tid, cycles, ret_getattr,
                   ret_setattr, res, all_cpus>>

\* if (shutdown) fatal("failed to setup child threads at step 2");
m_step2 ==
    /\ Running /\ mpc = "wait2" /\ Released(Main)
    /\ IF shutdown # 0
       THEN fatal
       ELSE mpc' = "bar3" /\ UNCHANGED status
    /\ UNCHANGED <<shutdown, barrier, wpc, i, tid, cycles, ret_getattr,
                   ret_setattr, res, all_cpus, pids>>

\* after the third barrier: signal(SIGINT/SIGTERM/SIGALRM, sighand);
\* if (duration) alarm(duration); loop(sched_data, nr_threads);
m_signals ==
    /\ Running /\ mpc = "wait3" /\ Released(Main)
    /\ mpc' = "loop"
    /\ UNCHANGED <<shutdown, barrier, wpc, i, tid, cycles, ret_getattr,
                   ret_setattr, res, all_cpus, pids, status>>

\* static void sighand(int sig) { shutdown = 1; }  delivered by SIGINT,
\* SIGTERM or the SIGALRM of alarm(duration), once the handlers are installed
sighand_toggles ==
    /\ Running /\ mpc \in {"loop", "join"}
    /\ shutdown' = 1 - shutdown
    /\ UNCHANGED <<barrier, mpc, wpc, i, tid, cycles, ret_getattr,
                   ret_setattr, res, all_cpus, pids, status>>
sighand ==
    /\ Running /\ mpc \in {"loop", "join"}
    /\ shutdown' = 1
    /\ UNCHANGED <<barrier, mpc, wpc, i, tid, cycles, ret_getattr,
                   ret_setattr, res, all_cpus, pids, status>>

\* loop(): while (!shutdown) { print_stat(...) for every thread; usleep; }
\* print_stat with verbose = 0 only reads the statistics
loop ==
    /\ Running /\ mpc = "loop"
    /\ mpc' = IF shutdown = 0 THEN "loop" ELSE "join"
    /\ UNCHANGED <<shutdown, barrier, wpc, i, tid, cycles, ret_getattr,
                   ret_setattr, res, all_cpus, pids, status>>

\* res = join_thread(&thread[i]) for each i, then the JSON report, the
\* frees and return 0
m_join ==
    /\ Running /\ mpc = "join"
    /\ wpc[i] = "exited"
    /\ IF i + 1 < nr_threads
       THEN i' = i + 1 /\ UNCHANGED <<mpc, status>>
       ELSE mpc' = "done" /\ status' = 0 /\ UNCHANGED i
    /\ UNCHANGED <<shutdown, barrier, wpc, tid, cycles, ret_getattr,
                   ret_setattr, res, all_cpus, pids>>

main ==
    \/ m_setup \/ m_create \/ m_arrive \/ m_step1 \/ m_cpuset \/ m_step2
    \/ m_signals \/ loop \/ m_join

Next ==
    /\ \/ main
       \/ sighand
       \/ \E w \in Workers : run_deadline(w)
    /\ UNCHANGED <<cvars, svars, rvars>>

Spec == Init /\ [][Next]_vars

\* every thread that can run is eventually scheduled; signals are not owed
FairSpec ==
    /\ Spec
    /\ WF_vars(main /\ UNCHANGED <<cvars, svars, rvars>>)
    /\ \A w \in Workers : WF_vars(run_deadline(w) /\ UNCHANGED <<cvars, svars, rvars>>)

(***************************************************************************)
(* CPU lists                                                               *)
(***************************************************************************)
MaxCpu == 3          \* CPU numbers 0 .. MaxCpu are used in expressions
BigCpu == 12         \* and one CPU number of two digits
MaxTokens == 3       \* tokens per expression

CpuValues == (0 .. MaxCpu) \cup {BigCpu}
Intervals == {iv \in CpuValues \X CpuValues : iv[1] <= iv[2]}
TokenSeqs == UNION {[1 .. n -> Intervals] : n \in 0 .. MaxTokens}
CpuCounts == {MaxCpu + 1, BigCpu + 1}

\* characters are one-character strings, a C string is a sequence of them
Digits == <<"0", "1", "2", "3", "4", "5", "6", "7", "8", "9">>
NUL == "NUL"
At(str, k) == IF k \in 1 .. Len(str) THEN str[k] ELSE NUL

isdigit(c) == \E d \in 1 .. 10 : Digits[d] = c
DigitVal(c) == (CHOOSE d \in 1 .. 10 : Digits[d] = c) - 1

\* while (isdigit(*p)) p++;
RECURSIVE SkipDigits(_, _)
SkipDigits(str, k) ==
    IF isdigit(At(str, k)) THEN SkipDigits(str, k + 1) ELSE k

\* atoi(p): white space, an optional sign, then the digits that follow
RECURSIVE AtoiDigits(_, _, _)
AtoiDigits(str, k, acc) ==
    IF isdigit(At(str, k))
    THEN AtoiDigits(str, k + 1, 10 * acc + DigitVal(At(str, k)))
    ELSE acc

RECURSIVE atoi(_, _)
atoi(str, k) ==
    CASE At(str, k) = " " -> atoi(str, k + 1)
      [] At(str, k) = "-" -> 0 - AtoiDigits(str, k + 1, 0)
      [] At(str, k) = "+" -> AtoiDigits(str, k + 1, 0)
      [] OTHER -> AtoiDigits(str, k, 0)

\* snprintf(..., "%d", n)
RECURSIVE itoa(_)
itoa(n) ==
    IF n < 0 THEN <<"-">> \o itoa(0 - n)
    ELSE IF n < 10 THEN <<Digits[n + 1]>>
    ELSE itoa(n \div 10) \o <<Digits[(n % 10) + 1]>>

Node(s, e) == [start_cpu |-> s, end_cpu |-> e]

\* add_cpus: the node *cpu_list stops at
\*   while (*cpu_list && (*cpu_list)->end_cpu + 1 < start_cpu)
RECURSIVE FindNode(_, _, _)
FindNode(list, k, start_cpu) ==
    IF k <= Len(list) /\ list[k].end_cpu + 1 < start_cpu
    THEN FindNode(list, k + 1, start_cpu)
    ELSE k

\* add_cpus: the last node removed by
\*   while (list && list->start_cpu <= end_cpu + 1)
RECURSIVE LastMerged(_, _, _)
LastMerged(list, k, end_cpu) ==
    IF k + 1 <= Len(list) /\ list[k + 1].start_cpu <= end_cpu + 1
    THEN LastMerged(list, k + 1, end_cpu)
    ELSE k

add_cpus(list, start_cpu, end_cpu) ==
    LET k == FindNode(list, 1, start_cpu) IN
    IF k > Len(list)
    THEN Append(list, Node(start_cpu, end_cpu))
    ELSE
      LET cur == list[k] IN
      IF end_cpu > cur.start_cpu /\ start_cpu <= cur.end_cpu + 1
      THEN \* Look to concatinate
        LET m == LastMerged(list, k, end_cpu)
            s == IF start_cpu < cur.start_cpu THEN start_cpu ELSE cur.start_cpu
            e0 == IF m > k THEN list[m].end_cpu ELSE cur.end_cpu
            e == IF e0 < end_cpu THEN end_cpu ELSE e0
        IN  SubSeq(list, 1, k - 1) \o <<Node(s, e)>>
              \o SubSeq(list, m + 1, Len(list))
      ELSE IF end_cpu >= cur.start_cpu - 1
      THEN \* Check for overlaps
        [list EXCEPT ![k].start_cpu = start_cpu]
      ELSE \* the new node goes after *cpu_list
        SubSeq(list, 1, k) \o <<Node(start_cpu, end_cpu)>>
          \o SubSeq(list, k + 1, Len(list))

\* count_cpus: the sum of the lengths, -1 when a node ends at or beyond
\* cpu_count
RECURSIVE SumCpus(_)
SumCpus(list) ==
    IF list = <<>> THEN 0
    ELSE (Head(list).end_cpu - Head(list).start_cpu) + 1 + SumCpus(Tail(list))

count_cpus(list, count) ==
    IF \E k \in 1 .. Len(list) : list[k].end_cpu >= count
    THEN -1 ELSE SumCpus(list)

\* append_cpus: "%s%d" or "%s%d-%d" written at the end of buf
append_cpus(buf, start, end, comma) ==
    IF start = end
    THEN buf \o comma \o itoa(start)
    ELSE buf \o comma \o itoa(start) \o <<"-">> \o itoa(end)

\* make_new_list: NULL (here <<>>) stays when the list is empty
RECURSIVE RenderFrom(_, _, _)
RenderFrom(list, buf, comma) ==
    IF list = <<>> THEN buf
    ELSE RenderFrom(Tail(list),
                    append_cpus(buf, Head(list).start_cpu, Head(list).end_cpu, comma),
                    <<",">>)

make_new_list(list) == RenderFrom(list, <<>>, <<>>)

\* make_other_cpu_list: the loop, then the tail up to cpu_count - 1
RECURSIVE OtherLoop(_, _, _, _, _, _)
OtherLoop(str, k, curr_cpu, count, buf, comma) ==
    IF At(str, k) # NUL /\ curr_cpu < count
    THEN
      LET cpu1 == atoi(str, k)
          gap == cpu1 > curr_cpu
          buf1 == IF gap THEN append_cpus(buf, curr_cpu, cpu1 - 1, comma) ELSE buf
          comma1 == IF gap THEN <<",">> ELSE comma
          k1 == SkipDigits(str, k)
          dash == At(str, k1) = "-"
          cpu2 == IF dash THEN atoi(str, k1 + 1) ELSE cpu1
          k2 == IF dash THEN SkipDigits(str, k1 + 1) ELSE k1
          k3 == IF At(str, k2) # NUL THEN k2 + 1 ELSE k2
      IN  OtherLoop(str, k3, cpu2 + 1, count, buf1, comma1)
    ELSE
      IF curr_cpu < count
      THEN append_cpus(buf, curr_cpu, count - 1, comma)
      ELSE buf

make_other_cpu_list(str, count) == OtherLoop(str, 1, 0, count, <<>>, <<>>)

\* the text a user writes for a sequence of intervals: N or N-M, commas
\* in between
RECURSIVE Expr(_)
Expr(toks) ==
    IF toks = <<>> THEN <<>>
    ELSE LET t == toks[Len(toks)]
             head == Expr(SubSeq(toks, 1, Len(toks) - 1))
             sep == IF Len(toks) > 1 THEN <<",">> ELSE <<>>
         IN  IF t[1] = t[2] THEN head \o sep \o itoa(t[1])
             ELSE head \o sep \o itoa(t[1]) \o <<"-">> \o itoa(t[2])

\* the thread variables, at rest while a CPU expression is processed
TInitThreads ==
    /\ shutdown = 0 /\ barrier = {} /\ mpc = "idle"
    /\ wpc = [w \in Workers |-> "notcreated"]
    /\ i = 0
    /\ tid = [w \in Workers |-> 0]
    /\ cycles = [w \in Workers |-> 0]
    /\ ret_getattr = [w \in Workers |-> "none"]
    /\ ret_setattr = [w \in Workers |-> "none"]
    /\ res = [w \in Workers |-> "none"]
    /\ all_cpus = FALSE /\ pids = <<>> /\ status = -1

InitCpu ==
    /\ tokens \in TokenSeqs
    /\ setcpu = Expr(tokens)
    /\ cpu_count \in CpuCounts
    /\ p = 1
    /\ cpu_list = <<>>
    /\ setcpu_buf = <<>>
    /\ allcpu_buf = <<>>
    /\ nr_cpus = 0
    /\ cpc = "parse"
    /\ passes = 0
    /\ first = NoFirst
    /\ TInitThreads
    /\ TInitSched
    /\ TInitRun

\* calc_nr_cpus: one pass of "for (p = setcpu; *p; )"; goto err makes
\* calc_nr_cpus return -1 and main call fatal("Invalid cpu input ...");
\* the passes are counted, up to one more than the string has characters
calc_nr_cpus ==
    /\ cpc = "parse"
    /\ At(setcpu, p) # NUL
    /\ passes <= Len(setcpu)
    /\ passes' = passes + 1
    /\ LET cpu == atoi(setcpu, p)
           p1 == SkipDigits(setcpu, p)
           dash == At(setcpu, p1) = "-"
           end_cpu == IF dash THEN atoi(setcpu, p1 + 1) ELSE cpu
           p2 == IF dash THEN SkipDigits(setcpu, p1 + 1) ELSE p1
           err == \/ cpu < 0 \/ (cpu = 0 /\ At(setcpu, p) # "0")
                  \/ /\ dash
                     /\ \/ end_cpu < cpu
                        \/ (end_cpu = 0 /\ At(setcpu, p1 + 1) # "0")
       IN  IF err
           THEN /\ nr_cpus' = -1
                /\ cpc' = "invalid"
                /\ UNCHANGED <<p, cpu_list>>
           ELSE /\ cpu_list' = add_cpus(cpu_list, cpu, end_cpu)
                /\ p' = IF At(setcpu, p2) = "," THEN p2 + 1 ELSE p2
                /\ UNCHANGED <<nr_cpus, cpc>>
    /\ UNCHANGED <<tokens, setcpu, cpu_count, setcpu_buf, allcpu_buf, first>>

\* calc_nr_cpus at the end of the string: make_new_list(cpu_list, buf);
\* return count_cpus(cpu_list); then main:
\* if (nr_cpus < 0 || nr_cpus > cpu_count) fatal("Invalid cpu input ...")
\* (cpu_list is kept here, to be looked at, although count_cpus frees it)
calc_nr_cpus_end ==
    /\ cpc = "parse"
    /\ At(setcpu, p) = NUL
    /\ setcpu_buf' = make_new_list(cpu_list)
    /\ nr_cpus' = count_cpus(cpu_list, cpu_count)
    /\ cpc' = IF nr_cpus' < 0 \/ nr_cpus' > cpu_count THEN "invalid" ELSE "parsed"
    /\ UNCHANGED <<tokens, setcpu, cpu_count, p, cpu_list, allcpu_buf, passes,
                   first>>

\* main: setcpu = setcpu_buf; if (setcpu) make_other_cpu_list(setcpu, &allcpu_buf);
\* setcpu_buf is NULL when the list was empty
m_other_cpus ==
    /\ cpc = "parsed"
    /\ setcpu' = setcpu_buf
    /\ allcpu_buf' = IF cpu_list = <<>> THEN <<>>
                     ELSE make_other_cpu_list(setcpu_buf, cpu_count)
    /\ cpc' = "others"
    /\ UNCHANGED <<tokens, cpu_count, p, cpu_list, setcpu_buf, nr_cpus, passes,
                   first>>

\* the rendered text is given to calc_nr_cpus again
reparse ==
    /\ cpc = "others"
    /\ ~first.done
    /\ first' = [done |-> TRUE, list |-> cpu_list, text |-> setcpu_buf,
                 others |-> allcpu_buf]
    /\ p' = 1
    /\ cpu_list' = <<>>
    /\ passes' = 0
    /\ cpc' = "parse"
    /\ UNCHANGED <<tokens, setcpu, cpu_count, setcpu_buf, allcpu_buf, nr_cpus>>

NextCpu ==
    /\ \/ calc_nr_cpus \/ calc_nr_cpus_end \/ m_other_cpus \/ reparse
    /\ UNCHANGED <<tvars, svars, rvars>>

SpecCpu == InitCpu /\ [][NextCpu]_vars

(***************************************************************************)
(* Startup protocol: properties                                            *)
(***************************************************************************)
SetattrFailed == \E w \in Workers : ret_setattr[w] = "fail"
GetattrFailed == \E w \in Workers : ret_getattr[w] = "fail"

\* C1: a worker that is about to execute do_runtime in its steady-state loop
\* finds that every worker has completed a successful sched_setattr; once a
\* sched_setattr has failed no worker is at do_runtime and every stat.cycles
\* still is the 1 left by main's trial run.
C1_AllAppliedBeforeMeasuring ==
    /\ \A w \in Workers :
         wpc[w] = "do_runtime" => \A v \in Workers : ret_setattr[v] = "ok"
    /\ SetattrFailed =>
         \A w \in Workers : wpc[w] # "do_runtime" /\ cycles[w] = 1

C1_Witness ==
    \E w \in Workers :
       /\ wpc[w] = "do_runtime"
       /\ \A v \in Workers : ret_setattr[v] = "ok"

\* C2 (as claimed): when a sched_setattr has failed, no worker enters the
\* steady-state loop and, when the run is over, no worker is still held in
\* pthread_barrier_wait: each of them got out of the barrier and can be joined.
C2_NoWorkerLeftInBarrier ==
    SetattrFailed =>
       /\ \A w \in Workers : wpc[w] # "do_runtime"
       /\ (~Running => \A w \in Workers : w \notin barrier)

\* C3 (as claimed): when a sched_setattr has failed, main never returns
\* success.
C3_FailedSetattrNeverSucceeds ==
    SetattrFailed => status # 0

\* C4: when a first sched_getattr has failed, main does not get past the
\* check after the first barrier, no worker applies its attributes or runs
\* do_runtime, stat.cycles stays as main left it, and under fair scheduling
\* the process ends with exit status 1.
C4_Safety ==
    GetattrFailed =>
       /\ mpc \in {"create", "bar1", "wait1", "aborted"}
       /\ status # 0
       /\ \A w \in Workers :
            /\ ret_setattr[w] = "none"
            /\ wpc[w] \notin {"setattr", "do_runtime"}
            /\ cycles[w] = 1

C4_GetattrFailureAborts ==
    /\ []C4_Safety
    /\ GetattrFailed ~> (mpc = "aborted" /\ status = 1)

C4_Witness ==
    /\ GetattrFailed
    /\ mpc = "aborted"
    /\ \E w \in Workers : wpc[w] = "wait2"

CpusOf(list) ==
    UNION {list[k].start_cpu .. list[k].end_cpu : k \in 1 .. Len(list)}
TokenCpus == UNION {tokens[k][1] .. tokens[k][2] : k \in 1 .. Len(tokens)}

\* strictly increasing, non-overlapping, non-adjacent
Canonical(list) ==
    /\ \A k \in 1 .. Len(list) : list[k].start_cpu <= list[k].end_cpu
    /\ \A k \in 1 .. (Len(list) - 1) :
         list[k + 1].start_cpu >= list[k].end_cpu + 2

\* the canonical list of a set of CPUs
RECURSIVE CanonicalList(_)
CanonicalList(S) ==
    IF S = {} THEN <<>>
    ELSE LET lo == CHOOSE c \in S : \A d \in S : c <= d
             hi == CHOOSE c \in S :
                     /\ lo .. c \subseteq S
                     /\ (c + 1) \notin S
         IN  <<Node(lo, hi)>> \o CanonicalList(S \ (lo .. hi))

\* add_cpus applied to the intervals of a sequence, first to last
RECURSIVE AddAll(_, _)
AddAll(list, toks) ==
    IF toks = <<>> THEN list
    ELSE AddAll(add_cpus(list, Head(toks)[1], Head(toks)[2]), Tail(toks))

Reorderings(toks) ==
    {[k \in 1 .. Len(toks) |-> toks[f[k]]] : f \in Permutations(1 .. Len(toks))}

FirstPass == ~first.done
Parsed == cpc \in {"parsed", "others"}
ParseOver == cpc \in {"parsed", "others", "invalid"}
TokensBelowCount == TokenCpus \subseteq 0 .. (cpu_count - 1)

\* C6 (as claimed): after every insertion the list is strictly increasing,
\* non-overlapping and non-adjacent: b.start >= a.end + 2 for consecutive a, b.
C6_ListCanonical ==
    (FirstPass /\ cpc = "parse") => Canonical(cpu_list)

\* C7 (as claimed): the list built from the tokens is the list built from
\* every reordering of the same tokens.
C7_OrderIndependent ==
    (FirstPass /\ Parsed) =>
       \A perm \in Reorderings(tokens) : AddAll(<<>>, perm) = cpu_list

\* C8 (as claimed): parsing the rendered text again gives the same list, and
\* rendering that list gives the same text.
C8_RoundTrip ==
    (first.done /\ ParseOver) =>
       /\ cpc # "invalid"
       /\ cpu_list = first.list
       /\ setcpu_buf = first.text

\* C9 (as claimed): for tokens that name only CPUs below cpu_count the parse
\* succeeds and the list denotes exactly the CPUs the tokens name, with
\* overlapping and adjacent tokens merged.
C9_ListIsUnion ==
    (FirstPass /\ ParseOver /\ TokensBelowCount) =>
       /\ cpc # "invalid"
       /\ CpusOf(cpu_list) = TokenCpus
       /\ Canonical(cpu_list)

\* C10 (as claimed): for a non-empty expression whose CPUs are below
\* cpu_count, the text make_other_cpu_list computes from the rendered text is
\* the sorted, merged list of the CPUs of 0 .. cpu_count - 1 not named.
C10_ComplementExact ==
    (FirstPass /\ cpc = "others" /\ tokens # <<>> /\ TokensBelowCount) =>
       allcpu_buf =
         make_new_list(CanonicalList((0 .. (cpu_count - 1)) \ TokenCpus))

\* the complement is exact for expressions whose tokens are written in
\* canonical form (ascending, merged)
SortedExprComplement ==
    (FirstPass /\ cpc = "others" /\ tokens # <<>> /\ TokensBelowCount
       /\ Canonical([k \in 1 .. Len(tokens) |-> Node(tokens[k][1], tokens[k][2])])) =>
       allcpu_buf =
         make_new_list(CanonicalList((0 .. (cpu_count - 1)) \ TokenCpus))

(***************************************************************************)
(* The complement applied twice (SpecComp)                                 *)
(***************************************************************************)
MaxCount == 5        \* cpu_count runs over 1 .. MaxCount

\* main: if (setcpu) make_other_cpu_list(setcpu, &allcpu_buf);
\* a NULL text (here <<>>) is not given to make_other_cpu_list and the
\* result stays NULL
other_cpus_from_one(text, count) ==
    IF text = <<>> THEN <<>> ELSE OtherLoop(text, 1, 1, count, <<>>, <<>>)
other_cpus(text, count) ==
    IF text = <<>> THEN <<>> ELSE make_other_cpu_list(text, count)

\* a canonical list over 0 .. cpu_count - 1 and its text
InitComp ==
    /\ cpu_count \in 1 .. MaxCount
    /\ \E S \in SUBSET (0 .. (cpu_count - 1)) : cpu_list = CanonicalList(S)
    /\ setcpu_buf = make_new_list(cpu_list)
    /\ allcpu_buf = <<>>
    /\ setcpu = <<>>
    /\ tokens = <<>>
    /\ p = 1
    /\ nr_cpus = 0
    /\ cpc = "set"
    /\ passes = 0
    /\ first = NoFirst
    /\ TInitThreads
    /\ TInitSched
    /\ TInitRun

\* the complement of the text of the list
comp_first ==
    /\ cpc = "set"
    /\ allcpu_buf' = other_cpus(setcpu_buf, cpu_count)
    /\ cpc' = "comp1"
    /\ UNCHANGED <<tokens, setcpu, cpu_count, p, cpu_list, setcpu_buf,
                   nr_cpus, passes, first>>

\* the complement of that complement
comp_second ==
    /\ cpc = "comp1"
    /\ setcpu' = other_cpus(allcpu_buf, cpu_count)
    /\ cpc' = "comp2"
    /\ UNCHANGED <<tokens, cpu_count, p, cpu_list, setcpu_buf, allcpu_buf,
                   nr_cpus, passes, first>>

NextComp ==
    /\ comp_first \/ comp_second
    /\ UNCHANGED <<tvars, svars, rvars>>

SpecComp == InitComp /\ [][NextComp]_vars

AllCpus == 0 .. (cpu_count - 1)

\* C11 (as claimed): for every canonical list over 0 .. cpu_count - 1, empty
\* and full included, the complement of the complement is the list again.
C11_DoubleComplement ==
    cpc = "comp2" => setcpu = setcpu_buf

\* C11 (amended): for every canonical list over 0 .. cpu_count - 1 that is
\* neither empty nor all of 0 .. cpu_count - 1, the complement is the
\* canonical text of the CPUs left out and the complement of the complement
\* is the text of the list again.
C11_DoubleComplementProper ==
    (cpc \in {"comp1", "comp2"} /\ cpu_list # <<>> /\ CpusOf(cpu_list) # AllCpus) =>
       /\ allcpu_buf = make_new_list(CanonicalList(AllCpus \ CpusOf(cpu_list)))
       /\ cpc = "comp2" => setcpu = setcpu_buf

C11_Witness ==
    /\ cpc = "comp2"
    /\ Len(cpu_list) = 2
    /\ setcpu = setcpu_buf
    /\ allcpu_buf # <<>>

(***************************************************************************)
(* calc_nr_cpus on texts with malformed tokens (SpecText)                  *)
(***************************************************************************)
MaxRawTokens == 3    \* tokens per text

\* tokens as a user can type them
ValidTok == {<<"0">>, <<"1">>, <<"3">>, <<"1", "-", "3">>}
NegativeTok == {<<"-", "1">>}
NonNumericTok == {<<"a">>, <<"1", "a">>, <<"1", "-", "a">>}
ReversedTok == {<<"3", "-", "1">>}
OtherTok == {<<"+", "1">>, <<" ", "1">>, <<>>}
MalformedTok == NegativeTok \cup NonNumericTok \cup ReversedTok
RawTokens == ValidTok \cup MalformedTok \cup OtherTok
RawSeqs == UNION {[1 .. n -> RawTokens] : n \in 0 .. MaxRawTokens}

\* the tokens with commas in between
RECURSIVE Join(_)
Join(raw) ==
    IF raw = <<>> THEN <<>>
    ELSE IF Len(raw) = 1 THEN raw[1]
    ELSE raw[1] \o <<",">> \o Join(Tail(raw))

InitText ==
    /\ tokens \in RawSeqs
    /\ setcpu = Join(tokens)
    /\ cpu_count = MaxCpu + 1
    /\ p = 1
    /\ cpu_list = <<>>
    /\ setcpu_buf = <<>>
    /\ allcpu_buf = <<>>
    /\ nr_cpus = 0
    /\ cpc = "parse"
    /\ passes = 0
    /\ first = NoFirst
    /\ TInitThreads
    /\ TInitSched
    /\ TInitRun

SpecText == InitText /\ [][NextCpu]_vars

ContainsMalformed == \E k \in 1 .. Len(tokens) : tokens[k] \in MalformedTok
OnlyListedTokens ==
    \A k \in 1 .. Len(tokens) : tokens[k] \in ValidTok \cup MalformedTok

\* C12 (as claimed): a text that contains a malformed token (negative,
\* non-numeric, or N-M with M < N) is never accepted as a set, and
\* calc_nr_cpus has returned -1 by the time its loop has made one pass per
\* character of the text.
C12_MalformedFails ==
    ContainsMalformed =>
       /\ cpc \notin {"parsed", "others"}
       /\ passes <= Len(setcpu)
       /\ (cpc # "parse" => (cpc = "invalid" /\ nr_cpus = -1))

\* when every other token of the text is well formed, the text with a
\* malformed token is refused
MalformedAmongValidFails ==
    (ContainsMalformed /\ OnlyListedTokens) =>
       /\ passes <= Len(setcpu)
       /\ (cpc # "parse" => (cpc = "invalid" /\ nr_cpus = -1))
       /\ (cpc = "parse" => ENABLED calc_nr_cpus)

\* a text with a malformed token is never accepted, whatever else it holds
MalformedNeverAccepted ==
    ContainsMalformed => cpc \notin {"parsed", "others"}

\* C13 (as claimed): for the list built from a valid expression count_cpus
\* gives -1 exactly when an interval of the list ends at or beyond cpu_count,
\* and otherwise the number of distinct CPUs the expression names.
C13_CountsDistinctCpus ==
    (FirstPass /\ ParseOver /\ cpc # "idle") =>
       nr_cpus = IF \E k \in 1 .. Len(cpu_list) : cpu_list[k].end_cpu >= cpu_count
                 THEN -1
                 ELSE Cardinality(TokenCpus)

\* count_cpus is exact for expressions written in canonical form
SortedExprCount ==
    (FirstPass /\ ParseOver
       /\ Canonical([k \in 1 .. Len(tokens) |-> Node(tokens[k][1], tokens[k][2])])) =>
       nr_cpus = IF \E c \in TokenCpus : c >= cpu_count
                 THEN -1
                 ELSE Cardinality(TokenCpus)

(***************************************************************************)
(* The schedule setup of main (SpecSched)                                  *)
(***************************************************************************)
MaxWorkers == 5      \* worker counts 1 .. MaxWorkers
MaxSchedCpus == 4    \* CPU counts 1 .. MaxSchedCpus

\* values of -i and -s
IntervalOpts == {1, 1000, 3333, 100000, 100000000}
StepOpts == {0, 500, 1000}

\* runtime = interval * percent / 100 with unsigned int interval: the
\* product is taken modulo 2^32, then divided.  The product is formed in
\* 16 bit halves, lo and hi being the halves of the wrapped product.
runtime_of(a, k) ==
    LET al == a % 65536
        ah == a \div 65536
        t  == al * k
        lo == t % 65536
        hi == (ah * k + t \div 65536) % 65536
    IN  (hi \div 100) * 65536 + ((hi % 100) * 65536 + lo) \div 100

\* d * k / 100 in the integers
ExactPct(d, k) == (d \div 100) * k + ((d % 100) * k) \div 100

InitSched ==
    /\ opt_interval \in IntervalOpts
    /\ interval = opt_interval
    /\ step \in StepOpts
    /\ percent = 60
    /\ opt_threads \in 1 .. MaxWorkers
    /\ sched_data = [k \in 0 .. (opt_threads - 1) |->
                        [runtime_us |-> 0, deadline_us |-> 0]]
    /\ sched_i = 0
    /\ spc = "percent"
    /\ tokens = <<>> /\ setcpu = <<>> /\ cpu_count = MaxSchedCpus /\ p = 1
    /\ cpu_list = <<>> /\ setcpu_buf = <<>> /\ allcpu_buf = <<>>
    /\ nr_cpus \in 1 .. MaxSchedCpus
    /\ cpc = "idle" /\ passes = 0 /\ first = NoFirst
    /\ TInitThreads
    /\ TInitRun

\* if (nr_threads > nr_cpus) percent = nr_cpus * 80 / nr_threads;
sched_percent_kept ==
    /\ spc = "percent"
    /\ spc' = "setup"
    /\ UNCHANGED <<opt_interval, interval, step, percent, opt_threads,
                   sched_data, sched_i>>

sched_percent ==
    /\ spc = "percent"
    /\ percent' = IF opt_threads > nr_cpus
                  THEN (nr_cpus * 80) \div opt_threads
                  ELSE percent
    /\ spc' = "setup"
    /\ UNCHANGED <<opt_interval, interval, step, opt_threads, sched_data,
                   sched_i>>

\* one pass of "for (i = 0; i < nr_threads; i++)": hrtick is what
\* setup_hr_tick() returns, fits whether the trial cycle took no longer than
\* runtime_us.  The options drawn keep interval + step below 2^31.
sched_setup ==
    /\ spc = "setup"
    /\ sched_i < opt_threads
    /\ LET runtime == runtime_of(interval, percent)
       IN  \E hrtick \in BOOLEAN, fits \in BOOLEAN :
             IF runtime < 2000 /\ ~hrtick
             THEN /\ spc' = "fatal"
                  /\ UNCHANGED <<sched_data, interval, sched_i>>
             ELSE /\ sched_data' = [sched_data EXCEPT ![sched_i] =
                         [runtime_us |-> runtime, deadline_us |-> interval]]
                  /\ IF fits
                     THEN /\ interval' = interval + step
                          /\ sched_i' = sched_i + 1
                          /\ spc' = IF sched_i + 1 < opt_threads
                                    THEN "setup" ELSE "ready"
                     ELSE /\ spc' = "fatal"
                          /\ UNCHANGED <<interval, sched_i>>
    /\ UNCHANGED <<opt_interval, step, percent, opt_threads>>

NextSched ==
    /\ sched_percent \/ sched_setup
    /\ UNCHANGED <<tvars, cvars, rvars>>

SpecSched == InitSched /\ [][NextSched]_vars

\* the workers whose schedule has been written
SetUp == 0 .. (sched_i - 1)

\* C14 (as claimed): worker k gets deadline_us = base_interval + k * step and
\* runtime_us = deadline_us * duty_percent / 100, duty_percent being 60 when
\* there are no more workers than CPUs.
C14_ScheduleAsSpecified ==
    spc \in {"setup", "ready", "fatal"} =>
       /\ opt_threads <= nr_cpus => percent = 60
       /\ \A k \in SetUp :
             /\ sched_data[k].deadline_us = opt_interval + k * step
             /\ sched_data[k].runtime_us =
                   ExactPct(sched_data[k].deadline_us, percent)

\* the schedule is as specified while interval * percent stays below 2^32
ScheduleExactBelowWrap ==
    \A k \in SetUp :
       /\ sched_data[k].deadline_us = opt_interval + k * step
       /\ sched_data[k].deadline_us <= 42949672 =>
             sched_data[k].runtime_us =
                ExactPct(sched_data[k].deadline_us, percent)

\* 1000, 500 and three workers: 600:1000, 900:1500, 1200:2000
ScheduleExample ==
    (opt_interval = 1000 /\ step = 500 /\ opt_threads = 3 /\ spc = "ready"
       /\ percent = 60) =>
       sched_data = [k \in 0 .. 2 |->
                       [runtime_us |-> 600 + 300 * k,
                        deadline_us |-> 1000 + 500 * k]]

\* C15: the requested utilization is at most 80% of the CPUs in use:
\* nr_threads * percent <= 80 * nr_cpus, and every worker set up asks for
\* at most percent/100 of its period (runtime_us * 100 <= deadline_us *
\* percent), so the runtime_us / deadline_us of the workers add up to at most
\* nr_threads * percent / 100 <= 0.8 * nr_cpus.
C15_UtilizationCapped ==
    spc \in {"setup", "ready", "fatal"} =>
       /\ opt_threads * percent <= 80 * nr_cpus
       /\ \A k \in SetUp :
             sched_data[k].runtime_us <=
                ExactPct(sched_data[k].deadline_us, percent)

\* more workers than CPUs, all of them set up with the reduced percent
C15_Witness ==
    /\ spc = "ready" /\ opt_threads = 3 /\ nr_cpus = 2 /\ percent = 53
    /\ \A k \in SetUp : sched_data[k].runtime_us > 0

(***************************************************************************)
(* do_runtime on the statistics of one worker (SpecRun)                    *)
(***************************************************************************)
MaxClock == 6        \* get_time_us() returns 0 .. MaxClock
MaxLats == 3         \* cycles recorded per run

\* values of sd->deadline_us
DeadlineOpts == {2, 3}

\* if (now < period) period = now;
never_resync(now, start) == start
resync(now, start) == IF now < start THEN now ELSE start

\* diff > stat->max, !stat->min || diff < stat->min, act, avg += diff, cycles++
record(stat, diff) ==
    [cycles |-> stat.cycles + 1,
     min    |-> IF stat.min = 0 \/ diff < stat.min THEN diff ELSE stat.min,
     max    |-> IF diff > stat.max THEN diff ELSE stat.max,
     act    |-> diff,
     avg    |-> stat.avg + diff]

\* run_deadline before its loop: period = get_time_us(), statistics as
\* calloc left them
InitRun ==
    /\ sd \in [deadline_us : DeadlineOpts, stat : {FreshStat}]
    /\ clock = 0
    /\ period = clock
    /\ lats = <<>>
    /\ last = NoCall
    /\ TInitThreads /\ TInitCpu /\ TInitSched

\* time passes (sched_yield, preemption)
tick ==
    /\ clock < MaxClock
    /\ clock' = clock + 1
    /\ UNCHANGED <<sd, period, lats, last>>

\* period = do_runtime(tid, sd, period); diff is u64, and is never taken
\* from a period later than now
r_do_runtime ==
    /\ sd.stat.cycles < MaxLats
    /\ LET now   == clock
           start == resync(now, period)
           diff  == now - start
       IN  /\ sd' = [sd EXCEPT !.stat = record(sd.stat, diff)]
           /\ period' = start + sd.deadline_us
           /\ lats' = Append(lats, diff)
           /\ last' = [called |-> TRUE, now |-> now, period |-> period]
    /\ UNCHANGED clock

NextRun ==
    /\ tick \/ r_do_runtime
    /\ UNCHANGED <<tvars, cvars, svars>>

SpecRun == InitRun /\ [][NextRun]_vars

\* C16: after a call of do_runtime with period p at time now, the latency
\* recorded is 0 and the period was resynced to now when now < p, and is
\* now - p otherwise; it is never negative, and the period returned is the
\* (resynced) start plus deadline_us.
C16_ResyncNoNegativeLatency ==
    last.called =>
       LET start == IF last.now < last.period THEN last.now ELSE last.period
       IN  /\ sd.stat.act = IF last.now < last.period
                            THEN 0 ELSE last.now - last.period
           /\ sd.stat.act >= 0
           /\ lats[Len(lats)] = sd.stat.act
           /\ \A k \in 1 .. Len(lats) : lats[k] >= 0
           /\ period = start + sd.deadline_us

\* a call that came before its period: latency 0, next period from now
C16_Witness ==
    /\ last.called /\ last.now < last.period /\ last.now > 0
    /\ sd.stat.act = 0
    /\ period = last.now + sd.deadline_us

RECURSIVE SeqSum(_)
SeqSum(q) == IF q = <<>> THEN 0 ELSE q[1] + SeqSum(Tail(q))

SeqMin(q) == CHOOSE m \in {q[k] : k \in 1 .. Len(q)} :
                \A k \in 1 .. Len(q) : m <= q[k]
SeqMax(q) == CHOOSE m \in {q[k] : k \in 1 .. Len(q)} :
                \A k \in 1 .. Len(q) : m >= q[k]

\* C17 (as claimed): after k >= 1 latencies recorded on fresh statistics,
\* zero included, cycles = k, min and max are the least and the greatest of
\* them, act is the last and avg is their sum.
C17_StatsOfLatencies ==
    lats # <<>> =>
       /\ sd.stat.cycles = Len(lats)
       /\ sd.stat.min = SeqMin(lats)
       /\ sd.stat.max = SeqMax(lats)
       /\ sd.stat.act = lats[Len(lats)]
       /\ sd.stat.avg = SeqSum(lats)

\* the statistics are those of the latencies as long as none of them is 0
StatsExactWithoutZero ==
    lats # <<>> =>
       /\ sd.stat.cycles = Len(lats)
       /\ (\A k \in 1 .. Len(lats) : lats[k] > 0) =>
             sd.stat.min = SeqMin(lats)
       /\ sd.stat.max = SeqMax(lats)
       /\ sd.stat.act = lats[Len(lats)]
       /\ sd.stat.avg = SeqSum(lats)

(***************************************************************************)
(* Shutdown, ordering of the cohort and ownership of the statistics        *)
(***************************************************************************)

\* C18: once shutdown is set while main is in loop() or joining, no worker
\* starts another cycle (one that had read shutdown = 0 finishes the cycle it
\* is in), and under fair scheduling main leaves loop(), joins every worker
\* and returns 0.
C18_ShutdownCompletes ==
    /\ [][\A w \in Workers :
            (shutdown = 1 /\ wpc[w] = "loop") => wpc'[w] # "do_runtime"]_vars
    /\ (shutdown = 1 /\ mpc \in {"loop", "join"}) ~>
          (/\ mpc = "done" /\ status = 0
           /\ \A w \in Workers : wpc[w] = "exited")

\* a run ended by the flag after the workers did cycles of their own
C18_Witness ==
    /\ mpc = "done" /\ status = 0 /\ shutdown = 1
    /\ \A w \in Workers : wpc[w] = "exited" /\ res[w] = "NULL"
    /\ \E w \in Workers : cycles[w] = MaxCycles

\* positions of run_deadline before the worker is through its sched_getattr
\* and the preparation of attr
NotPrepared ==
    {"notcreated", "getattr", "fail1", "bar1", "bar1f", "wait1", "wait1f"}

\* C19: a worker is at sched_setattr, or has called it, only when every
\* worker has read its baseline with sched_getattr and prepared attr; a
\* worker executes do_runtime only when every worker has called sched_setattr.
C19_ReadsBeforeAppliesBeforeLoop ==
    \A w \in Workers :
       /\ (wpc[w] = "setattr" \/ ret_setattr[w] # "none") =>
             \A v \in Workers :
                ret_getattr[v] = "ok" /\ wpc[v] \notin NotPrepared
       /\ wpc[w] = "do_runtime" =>
             \A v \in Workers :
                ret_setattr[v] # "none" /\ wpc[v] \notin {"wait2", "setattr"}

\* one worker has applied its attributes, another has only read and prepared
C19_Witness ==
    \E w, v \in Workers :
       /\ ret_setattr[w] = "ok"
       /\ wpc[v] \in {"wait2", "setattr"} /\ ret_setattr[v] = "none"
       /\ ret_getattr[v] = "ok"

\* positions of run_deadline before the first test of "while (!shutdown)"
BeforeLoop ==
    NotPrepared \cup {"bar2", "wait2", "setattr", "fail2", "bar3", "bar3f",
                      "wait3", "wait3f"}

\* C20 (as claimed): only the worker's own thread writes its statistics, so
\* stat.cycles is the number of steady-state iterations the worker has made:
\* it changes only in the worker's do_runtime and is 0 for a worker that has
\* not reached its loop.
C20_StatsSingleWriter ==
    \A w \in Workers : wpc[w] \in BeforeLoop => cycles[w] = 0

\* after the setup loop of main the workers write their statistics alone
OwnWriterAfterSetup ==
    [][\A w \in Workers :
          (mpc # "setup" /\ cycles'[w] # cycles[w]) =>
             (wpc[w] = "do_runtime" /\ wpc'[w] = "loop")]_vars

\* C21: shutdown starts at 0 and is only ever 0 or 1; once it is 1 no step
\* of a worker, of main or of the signal handler makes it 0 again.
C21_ShutdownOneWay ==
    /\ shutdown = 0
    /\ [][shutdown' \in {0, 1} /\ (shutdown = 1 => shutdown' = 1)]_vars

\* the flag set by a signal during the steady state and still set when the
\* run is over
C21_Witness ==
    /\ shutdown = 1 /\ mpc = "done"
    /\ \A w \in Workers : ret_setattr[w] = "ok" /\ wpc[w] = "exited"

\* C22 (as claimed): the percent used for the schedule is at most the
\* default 60, and is below 60 only when there are more workers than CPUs.
C22_PercentOnlyReduced ==
    spc \in {"setup", "ready", "fatal"} =>
       /\ percent <= 60
       /\ percent < 60 => opt_threads > nr_cpus

\* what the code does: 60 unless there are more workers than CPUs, and then
\* 80 * nr_cpus / nr_threads, which is below 80
PercentIsDefaultOrShare ==
    spc \in {"setup", "ready", "fatal"} =>
       percent = IF opt_threads > nr_cpus
                 THEN (80 * nr_cpus) \div opt_threads
                 ELSE 60

\* C23 (as claimed): every schedule computed has runtime_us >= 1,
\* deadline_us >= 1 and runtime_us <= deadline_us.
C23_SchedulePositive ==
    \A k \in SetUp :
       /\ sched_data[k].runtime_us >= 1
       /\ sched_data[k].deadline_us >= 1
       /\ sched_data[k].runtime_us <= sched_data[k].deadline_us

\* the period is positive and the runtime fits in it; the runtime is
\* positive when deadline_us * percent reaches 100 and does not wrap
ScheduleFitsPeriod ==
    \A k \in SetUp :
       /\ sched_data[k].deadline_us >= 1
       /\ sched_data[k].runtime_us <= sched_data[k].deadline_us
       /\ (/\ sched_data[k].deadline_us <= 42949672
           /\ ExactPct(sched_data[k].deadline_us, percent) >= 1) =>
             sched_data[k].runtime_us >= 1

\* C24 (as claimed): every pass of the loop of calc_nr_cpus either leaves
\* with an error or consumes at least one character, so while the loop runs
\* the passes made never outnumber the characters consumed (p - 1) and the
\* loop is over after at most as many passes as the text has characters.
C24_EveryPassConsumes ==
    cpc = "parse" => passes <= p - 1

\* on text made of digits, ',' and '-' only, every pass consumes or fails
PlainTextTerminates ==
    (cpc = "parse"
       /\ \A k \in 1 .. Len(setcpu) :
             isdigit(setcpu[k]) \/ setcpu[k] \in {",", "-"}) =>
       passes <= p - 1

====
